---- MODULE Spec2Model ----
(***************************************************************************)
(* Model of .github/workflows/fetch_append_r_programmatic.py: the tolerant *)
(* JSON loader, the incremental fetch loop, the merge and the atomic save. *)
(*                                                                         *)
(* Text is a sequence of lexemes.  A lexeme is one character that the      *)
(* loader's regular expressions or the JSON grammar look at ("{", ",",     *)
(* "QT" for the double quote, "NL" for a line feed, "SP" for a space,      *)
(* "IND" for one level of indentation, "BOM" for U+FEFF, "FFFD" for        *)
(* U+FFFD, "BAD" for a byte that is not valid UTF-8, the two markers       *)
(* "<<<<<<<" and ">>>>>>>", "//", "/*", "*/"), a number literal ("2",      *)
(* "1.0"), the literal "null", or a run of letters that none of them       *)
(* looks into ("discussions", "x").                                        *)
(*                                                                         *)
(* A JSON / Python value is a tagged record: Null, Num, Str, Arr, Obj.     *)
(* An Obj keeps its members as a sequence of <<key, value>> pairs in       *)
(* insertion order, as a Python dict does.                                 *)
(***************************************************************************)
EXTENDS Integers, Sequences, FiniteSets, TLC

----------------------------------------------------------------------------
(* Values *)

Null == [t |-> "null"]
Num(n, f) == [t |-> "num", n |-> n, f |-> f]
Str(s) == [t |-> "str", s |-> s]
Arr(e) == [t |-> "arr", e |-> e]
Obj(m) == [t |-> "obj", m |-> m]

K(name) == <<name>>
S(name) == Str(<<name>>)

IsObj(v) == v.t = "obj"
IsArr(v) == v.t = "arr"

\* key in d
Has(d, k) == \E i \in 1..Len(d.m) : d.m[i][1] = k

\* d.get(k, dflt)
Get(d, k, dflt) ==
    IF Has(d, k)
    THEN d.m[CHOOSE i \in 1..Len(d.m) : d.m[i][1] = k][2]
    ELSE dflt

\* d[k] = v : an existing key keeps its place, a new one goes last
Put(d, k, v) ==
    IF Has(d, k)
    THEN Obj([i \in 1..Len(d.m) |-> IF d.m[i][1] = k THEN <<k, v>> ELSE d.m[i]])
    ELSE Obj(Append(d.m, <<k, v>>))

\* d.setdefault(k, v)
SetDefault(d, k, v) == IF Has(d, k) THEN d ELSE Put(d, k, v)

\* Python truthiness of a value (None, 0, 0.0, "", [], {} are falsy)
Truthy(v) ==
    CASE v.t = "null" -> FALSE
      [] v.t = "num" -> v.n # 0
      [] v.t = "str" -> v.s # <<>>
      [] v.t = "arr" -> v.e # <<>>
      [] v.t = "obj" -> v.m # <<>>

\* x or y
Or(x, y) == IF Truthy(x) THEN x ELSE y

\* float(x) of a number
Float(v) == Num(v.n, TRUE)

\* len(x): defined for a list, a str and a dict; TypeError for None and numbers
CanLen(v) == v.t \in {"arr", "str", "obj"}
PyLen(v) ==
    CASE v.t = "arr" -> Len(v.e)
      [] v.t = "str" -> Len(v.s)
      [] v.t = "obj" -> Len(v.m)
      [] OTHER -> 0

----------------------------------------------------------------------------
(* Number literals: repr / json.dumps of an int or a float, and back *)

FloatLex == <<"0.0", "1.0", "2.0", "3.0", "4.0", "5.0", "6.0", "7.0", "8.0", "9.0">>
Digits == 0..9

NumLex(v) == IF v.f THEN FloatLex[v.n + 1] ELSE ToString(v.n)

IsNumLex(x) == \E n \in Digits : x = ToString(n) \/ x = FloatLex[n + 1]

NumOfLex(x) ==
    LET n == CHOOSE n \in Digits : x = ToString(n) \/ x = FloatLex[n + 1]
    IN Num(n, x = FloatLex[n + 1])

\* str(x) inside an f-string: a str as itself, None as "None", a number as its repr
FmtValue(v) ==
    CASE v.t = "str" -> v.s
      [] v.t = "null" -> <<"None">>
      [] v.t = "num" -> <<NumLex(v)>>
      [] OTHER -> <<"?">>

----------------------------------------------------------------------------
(* json.dumps(data, ensure_ascii=False, indent=2) *)

Ind(d) == [i \in 1..d |-> "IND"]

RECURSIVE Dumps(_, _)
RECURSIVE DumpsItems(_, _, _)
RECURSIVE DumpsMembers(_, _, _)

DumpsItems(e, i, d) ==
    IF i > Len(e) THEN <<>>
    ELSE (IF i > 1 THEN <<",">> ELSE <<>>) \o <<"NL">> \o Ind(d) \o Dumps(e[i], d)
         \o DumpsItems(e, i + 1, d)

DumpsMembers(m, i, d) ==
    IF i > Len(m) THEN <<>>
    ELSE (IF i > 1 THEN <<",">> ELSE <<>>) \o <<"NL">> \o Ind(d)
         \o <<"QT">> \o m[i][1] \o <<"QT", ":", "SP">> \o Dumps(m[i][2], d)
         \o DumpsMembers(m, i + 1, d)

Dumps(v, d) ==
    CASE v.t = "null" -> <<"null">>
      [] v.t = "num" -> <<NumLex(v)>>
      [] v.t = "str" -> <<"QT">> \o v.s \o <<"QT">>
      [] v.t = "arr" ->
            IF v.e = <<>> THEN <<"[", "]">>
            ELSE <<"[">> \o DumpsItems(v.e, 1, d + 1) \o <<"NL">> \o Ind(d) \o <<"]">>
      [] v.t = "obj" ->
            IF v.m = <<>> THEN <<"{", "}">>
            ELSE <<"{">> \o DumpsMembers(v.m, 1, d + 1) \o <<"NL">> \o Ind(d) \o <<"}">>

json_dumps(v) == Dumps(v, 0)

----------------------------------------------------------------------------
(* json.loads(text): ok |-> FALSE stands for the JSONDecodeError *)

IsWs(x) == x \in {"SP", "NL", "IND"}

RECURSIVE SkipWs(_, _)
SkipWs(s, i) == IF i <= Len(s) /\ IsWs(s[i]) THEN SkipWs(s, i + 1) ELSE i

ParseFail == [ok |-> FALSE]
ParseOk(v, i) == [ok |-> TRUE, v |-> v, i |-> i]

\* the end of the string literal whose content starts at j: the index of the
\* closing quote, or 0 when the text or the line ends first
RECURSIVE StringEnd(_, _)
StringEnd(s, j) ==
    IF j > Len(s) \/ s[j] = "NL" THEN 0
    ELSE IF s[j] = "QT" THEN j
    ELSE StringEnd(s, j + 1)

StringUpTo(s, i, j) ==
    IF j = 0 THEN ParseFail ELSE ParseOk(Str(SubSeq(s, i + 1, j - 1)), j + 1)

\* the string that opens at s[i] = QT; a raw line feed inside it is an error
ParseString(s, i) == StringUpTo(s, i, StringEnd(s, i + 1))

RECURSIVE ParseValue(_, _)
RECURSIVE ParseMembers(_, _, _)
RECURSIVE ParseElems(_, _, _)

\* after a member's value v at e: a comma and the next member, or the closing brace
MembersAfterValue(s, acc, e) ==
    IF e > Len(s) THEN ParseFail
    ELSE IF s[e] = "," THEN ParseMembers(s, SkipWs(s, e + 1), acc)
    ELSE IF s[e] = "}" THEN ParseOk(acc, e + 1)
    ELSE ParseFail

MembersValue(s, acc, key, v) ==
    IF ~v.ok THEN ParseFail
    ELSE MembersAfterValue(s, Put(acc, key, v.v), SkipWs(s, v.i))

\* after a member's key k: the colon at j, then the value
MembersAfterKey(s, acc, k, j) ==
    IF ~k.ok THEN ParseFail
    ELSE IF j > Len(s) \/ s[j] # ":" THEN ParseFail
    ELSE MembersValue(s, acc, k.v.s, ParseValue(s, SkipWs(s, j + 1)))

MembersKey(s, acc, k) ==
    MembersAfterKey(s, acc, k, IF k.ok THEN SkipWs(s, k.i) ELSE 0)

\* the members of an object from i, where a key must start
ParseMembers(s, i, acc) ==
    IF i > Len(s) \/ s[i] # "QT" THEN ParseFail
    ELSE MembersKey(s, acc, ParseString(s, i))

ElemsAfterValue(s, acc, e) ==
    IF e > Len(s) THEN ParseFail
    ELSE IF s[e] = "," THEN ParseElems(s, SkipWs(s, e + 1), acc)
    ELSE IF s[e] = "]" THEN ParseOk(Arr(acc), e + 1)
    ELSE ParseFail

ElemsValue(s, acc, v) ==
    IF ~v.ok THEN ParseFail
    ELSE ElemsAfterValue(s, Append(acc, v.v), SkipWs(s, v.i))

\* the elements of an array from i, where a value must start
ParseElems(s, i, acc) == ElemsValue(s, acc, ParseValue(s, i))

\* after "{" or "[" : the closing bracket at once, or the members / elements
ObjectFrom(s, j) ==
    IF j <= Len(s) /\ s[j] = "}" THEN ParseOk(Obj(<<>>), j + 1)
    ELSE ParseMembers(s, j, Obj(<<>>))

ArrayFrom(s, j) ==
    IF j <= Len(s) /\ s[j] = "]" THEN ParseOk(Arr(<<>>), j + 1)
    ELSE ParseElems(s, j, <<>>)

ParseValue(s, i) ==
    IF i > Len(s) THEN ParseFail
    ELSE IF s[i] = "{" THEN ObjectFrom(s, SkipWs(s, i + 1))
    ELSE IF s[i] = "[" THEN ArrayFrom(s, SkipWs(s, i + 1))
    ELSE IF s[i] = "QT" THEN ParseString(s, i)
    ELSE IF s[i] = "null" THEN ParseOk(Null, i + 1)
    ELSE IF IsNumLex(s[i]) THEN ParseOk(NumOfLex(s[i]), i + 1)
    ELSE ParseFail

\* a value, then nothing but whitespace ("Extra data" otherwise)
WholeText(s, r) == IF r.ok /\ SkipWs(s, r.i) = Len(s) + 1 THEN r ELSE ParseFail

json_loads(s) == WholeText(s, ParseValue(s, SkipWs(s, 1)))

----------------------------------------------------------------------------
(* The tolerant loader's text transforms *)

SUBREDDIT == <<"programmatic">>
OUTPUT_PATH == "programmatic_complete_for_llm.json"

\* now_iso(): the clock reading as an ISO string
now_iso(now) == Str(<<"T", ToString(now)>>)

\* f"Reddit r/{name}"
SourceOf(name) == Str(<<"Reddit r/">> \o name)

empty_db(now) ==
    Obj(<< <<K("metadata"),
             Obj(<< <<K("source"), SourceOf(SUBREDDIT)>>,
                    <<K("scrape_date"), now_iso(now)>>,
                    <<K("total_posts"), Num(0, FALSE)>>,
                    <<K("total_comments"), Num(0, FALSE)>> >>)>>,
           <<K("discussions"), Arr(<<>>)>> >>)

\* s.lstrip(U+FEFF)
RECURSIVE _strip_bom(_)
_strip_bom(s) == IF s # <<>> /\ Head(s) = "BOM" THEN _strip_bom(Tail(s)) ELSE s

MinOf(set) == CHOOSE x \in set : \A y \in set : x <= y
MaxOf(set) == CHOOSE x \in set : \A y \in set : y <= x

\* first index j >= i with s[j] = x, or 0
FirstAt(s, i, x) ==
    LET hits == {j \in i..Len(s) : s[j] = x} IN
    IF hits = {} THEN 0 ELSE MinOf(hits)

\* re.sub(r"<<<<<<<.*?>>>>>>>\s*", "", s, flags=re.DOTALL), scanning from i:
\* the text up to the leftmost match, then the scan resumed after the match
RECURSIVE RemoveMarkersFrom(_, _)
RemoveMarkersFrom(s, i) ==
    LET opens == {m \in i..Len(s) : s[m] = "<<<<<<<" /\ FirstAt(s, m + 1, ">>>>>>>") # 0} IN
    IF opens = {} THEN SubSeq(s, i, Len(s))
    ELSE LET m == MinOf(opens)
             j == FirstAt(s, m + 1, ">>>>>>>")
         IN SubSeq(s, i, m - 1) \o RemoveMarkersFrom(s, SkipWs(s, j + 1))

_remove_merge_markers(s) == RemoveMarkersFrom(s, 1)

\* end of the line that holds position i: the index of its NL, or Len(s) + 1
EndOfLine(s, i) ==
    LET j == FirstAt(s, i, "NL") IN IF j = 0 THEN Len(s) + 1 ELSE j

\* re.sub(r"^\s*//.*?$", "", s, flags=re.MULTILINE), scanning from i
RECURSIVE RemoveLineCommentsFrom(_, _)
RemoveLineCommentsFrom(s, i) ==
    LET starts == {m \in i..Len(s) :
                      /\ m = 1 \/ s[m - 1] = "NL"
                      /\ SkipWs(s, m) <= Len(s)
                      /\ s[SkipWs(s, m)] = "//"}
    IN IF starts = {} THEN SubSeq(s, i, Len(s))
       ELSE LET m == MinOf(starts) IN
            SubSeq(s, i, m - 1) \o RemoveLineCommentsFrom(s, EndOfLine(s, SkipWs(s, m)))

\* re.sub(r"/\*.*?\*/", "", s, flags=re.DOTALL), scanning from i
RECURSIVE RemoveBlockCommentsFrom(_, _)
RemoveBlockCommentsFrom(s, i) ==
    LET opens == {m \in i..Len(s) : s[m] = "/*" /\ FirstAt(s, m + 1, "*/") # 0} IN
    IF opens = {} THEN SubSeq(s, i, Len(s))
    ELSE LET m == MinOf(opens) IN
         SubSeq(s, i, m - 1) \o RemoveBlockCommentsFrom(s, FirstAt(s, m + 1, "*/") + 1)

_remove_inline_comments(s) ==
    RemoveBlockCommentsFrom(RemoveLineCommentsFrom(s, 1), 1)

_strip_to_outer_braces(s) ==
    LET start == FirstAt(s, 1, "{")
        ends == {j \in 1..Len(s) : s[j] = "}"}
        end == IF ends = {} THEN 0 ELSE MaxOf(ends)
    IN IF start # 0 /\ end # 0 /\ end > start THEN SubSeq(s, start, end) ELSE s

\* re.sub(r",\s*([}\]])", r"\1", s), scanning from i
RECURSIVE FixTrailingCommasFrom(_, _)
FixTrailingCommasFrom(s, i) ==
    LET commas == {m \in i..Len(s) :
                      /\ s[m] = ","
                      /\ SkipWs(s, m + 1) <= Len(s)
                      /\ s[SkipWs(s, m + 1)] \in {"}", "]"}}
    IN IF commas = {} THEN SubSeq(s, i, Len(s))
       ELSE LET m == MinOf(commas)
                j == SkipWs(s, m + 1)
            IN SubSeq(s, i, m - 1) \o FixTrailingCommasFrom(s, j)

_fix_trailing_commas(s) == FixTrailingCommasFrom(s, 1)

\* the five candidates, each transform applied on top of the previous ones
Candidates(txt) ==
    LET c1 == _strip_bom(txt)
        c2 == _remove_merge_markers(c1)
        c3 == _remove_inline_comments(c2)
        c4 == _strip_to_outer_braces(c3)
        c5 == _fix_trailing_commas(c4)
    IN <<c1, c2, c3, c4, c5>>

\* the first of the results that is no error; ok |-> FALSE when all are (the raise)
FirstGood(results, good) ==
    IF good = {} THEN ParseFail ELSE results[MinOf(good)]

FirstParsed(results) ==
    FirstGood(results, {i \in 1..Len(results) : results[i].ok})

ParseEach(cs) == FirstParsed([i \in 1..Len(cs) |-> json_loads(cs[i])])

try_parse_relaxed(txt) == ParseEach(Candidates(txt))

----------------------------------------------------------------------------
(* Files *)

NoFile == [exists |-> FALSE, data |-> <<>>]
FileOf(data) == [exists |-> TRUE, data |-> data]

\* the text written straight to the target path
TmpPath_InPlace(path) == path

\* path.with_suffix(".tmp.json") and path.with_suffix(".corrupt.backup.json")
TmpPath(path) == "programmatic_complete_for_llm.tmp.json"
BackupPath(path) == "programmatic_complete_for_llm.corrupt.backup.json"
Paths == {OUTPUT_PATH, TmpPath(OUTPUT_PATH), BackupPath(OUTPUT_PATH)}

\* read_text(encoding="utf-8", errors="replace"): an undecodable byte reads as U+FFFD
read_text(bytes) == [i \in 1..Len(bytes) |-> IF bytes[i] = "BAD" THEN "FFFD" ELSE bytes[i]]

\* write_text(s, encoding="utf-8"): every lexeme of a decoded text encodes as itself
write_text(s) == [i \in 1..Len(s) |-> s[i]]

----------------------------------------------------------------------------
(* load_db *)

RECURSIVE SumSeq(_)
SumSeq(q) == IF q = <<>> THEN 0 ELSE Head(q) + SumSeq(Tail(q))

\* d.get("comments", []) of a dict
CommentsOf(d) == Get(d, K("comments"), Arr(<<>>))

\* the shape normalisation of load_db; st |-> "raise" is an uncaught exception
NormalizeShape(data, now) ==
    IF ~IsObj(data) THEN [st |-> "raise"]
    ELSE IF Has(data, K("discussions"))
    THEN [st |-> "ok",
          db |-> SetDefault(data, K("metadata"), Obj(<< <<K("source"), SourceOf(SUBREDDIT)>> >>))]
    ELSE LET discussions == Get(data, K("items"), Arr(<<>>))
             sub == Get(data, K("subreddit"), Str(SUBREDDIT))
         IN IF ~CanLen(discussions) \/ ~IsArr(discussions)
               \/ \E i \in 1..Len(discussions.e) :
                     IsObj(discussions.e[i]) /\ ~CanLen(CommentsOf(discussions.e[i]))
            THEN [st |-> "raise"]
            ELSE LET counts == [i \in 1..Len(discussions.e) |->
                                  IF IsObj(discussions.e[i])
                                  THEN PyLen(CommentsOf(discussions.e[i])) ELSE 0]
                     meta == Obj(<< <<K("source"), SourceOf(FmtValue(sub))>>,
                                    <<K("scrape_date"), now_iso(now)>>,
                                    <<K("total_posts"), Num(Len(discussions.e), FALSE)>>,
                                    <<K("total_comments"), Num(SumSeq(counts), FALSE)>> >>)
                 IN [st |-> "ok",
                     db |-> Obj(<< <<K("metadata"), meta>>, <<K("discussions"), discussions>> >>)]

\* lines 84-97: json.loads, else the relaxed parse
StrictOrRelaxed(raw, strict) == IF strict.ok THEN strict ELSE try_parse_relaxed(raw)
ParseRaw(raw) == StrictOrRelaxed(raw, json_loads(raw))

LoadNormalized(fsv, n) ==
    IF n.st = "raise" THEN [st |-> "raise", db |-> Null, fs |-> fsv]
    ELSE [st |-> "ok", db |-> n.db, fs |-> fsv]

\* lines 92-110: the fallback to an empty database, else the normalised shape
LoadParsed(fsv, path, now, raw, parsed) ==
    IF ~parsed.ok
    THEN [st |-> "ok", db |-> empty_db(now),
          fs |-> [fsv EXCEPT ![BackupPath(path)] = FileOf(write_text(raw))]]
    ELSE LoadNormalized(fsv, NormalizeShape(parsed.v, now))

LoadRaw(fsv, path, now, raw) == LoadParsed(fsv, path, now, raw, ParseRaw(raw))

\* load_db(path) on the file system fsv: the result, and the file system it leaves
load_db(fsv, path, now) ==
    IF ~fsv[path].exists THEN [st |-> "ok", db |-> empty_db(now), fs |-> fsv]
    ELSE LoadRaw(fsv, path, now, read_text(fsv[path].data))

----------------------------------------------------------------------------
(* main: identity keys, cutoff, the fetch loop, the merge *)

MAX_NEW_TO_PULL == 1000

\* post_key_from_existing(d)
post_key_from_existing(d) ==
    LET pid == Get(d, K("id"), Null) IN
    IF Truthy(pid) THEN <<"id:">> \o FmtValue(pid)
    ELSE <<"url:">> \o FmtValue(Get(d, K("url"), Str(<<>>)))
         \o <<"|ts:">> \o FmtValue(Get(d, K("created_utc"), Str(<<>>)))

\* float(x) raises for anything but a number (the texts here hold no numeric str)
CanFloat(v) == v.t = "num"

\* d.get("created_utc", 0.0) or 0.0
CreatedOrZero(d) == Or(Get(d, K("created_utc"), Num(0, TRUE)), Num(0, TRUE))

\* the loop of lines 177-184: the largest created_utc, float() errors passed over
RECURSIVE CutoffFrom(_, _, _)
CutoffFrom(discussions, i, cutoff) ==
    IF i > Len(discussions) THEN cutoff
    ELSE LET v == CreatedOrZero(discussions[i])
             ts == IF CanFloat(v) THEN Float(v).n ELSE 0
         IN CutoffFrom(discussions, i + 1,
                       IF CanFloat(v) /\ ts > cutoff THEN ts ELSE cutoff)

\* float(getattr(submission, "created_utc", 0.0) or 0.0)
Created(submission) == Float(Or(submission.created_utc, Num(0, TRUE)))

\* the key of line 199 built from the raw attribute instead of the float `created`
SubmissionKey_RawTimestamp(submission) ==
    IF Truthy(submission.id) THEN <<"id:">> \o FmtValue(submission.id)
    ELSE <<"url:">> \o FmtValue(submission.url)
         \o <<"|ts:">> \o FmtValue(submission.created_utc)

\* the key of line 199
SubmissionKey(submission) ==
    IF Truthy(submission.id) THEN <<"id:">> \o FmtValue(submission.id)
    ELSE <<"url:">> \o FmtValue(submission.url)
         \o <<"|ts:">> \o FmtValue(Created(submission))

\* the comments gathered before the fetch raised (all of them when it did not):
\* fail = -1 never raises, 0 raises in replace_more, k >= 1 raises at the k-th comment
Collected(submission) ==
    LET n == IF submission.fail = -1 THEN Len(submission.comments) ELSE submission.fail - 1
    IN [i \in 1..(IF n < 0 THEN 0 ELSE n) |->
          Obj(<< <<K("body"), submission.comments[i]>> >>)]

\* the except branch keeping the comments gathered so far
FetchedComments_Partial(submission) == Arr(Collected(submission))

\* what record["comments"] is set to (lines 145-161)
FetchedComments(submission) ==
    IF submission.fail = -1 THEN Arr(Collected(submission)) ELSE Arr(<<>>)

\* serialize_submission: the scalar fields kept here are id, title, url and
\* created_utc; the others are copied in the same way and nothing reads them
serialize_submission(submission) ==
    Obj(<< <<K("id"), submission.id>>,
           <<K("title"), submission.title>>,
           <<K("url"), submission.url>>,
           <<K("created_utc"), Created(submission)>>,
           <<K("comments"), FetchedComments(submission)>> >>)

\* line 197 with < in place of <=
StopsAt_Strict(cutoff, created) == cutoff # 0 /\ created.n < cutoff

\* whether line 197 breaks out of the loop
StopsAt(cutoff, created) == cutoff # 0 /\ created.n <= cutoff

\* one iteration of the loop of lines 194-204 on the idx-th submission
LoopStep(st, cutoff, submission, idx) ==
    LET created == Created(submission)
        key == SubmissionKey(submission)
    IN IF StopsAt(cutoff, created) THEN [st EXCEPT !.stop = TRUE]
       ELSE IF key \in st.seen THEN st
       ELSE [st EXCEPT !.seen = @ \cup {key},
                       !.new_items = Append(@, serialize_submission(submission)),
                       !.taken = Append(@, idx)]

\* the whole loop over strm from its i-th submission
RECURSIVE RunLoop(_, _, _, _)
RunLoop(st, cutoff, strm, i) ==
    IF i > Len(strm) \/ i > MAX_NEW_TO_PULL \/ st.stop THEN st
    ELSE RunLoop(LoopStep(st, cutoff, strm[i], i), cutoff, strm, i + 1)

\* the sort key of line 214
SortKey(d) == Float(CreatedOrZero(d)).n

\* list.sort is stable: x goes before the first element with a larger key
RECURSIVE InsertSorted(_, _)
InsertSorted(q, x) ==
    IF q = <<>> THEN <<x>>
    ELSE IF SortKey(x) < SortKey(Head(q)) THEN <<x>> \o q
    ELSE <<Head(q)>> \o InsertSorted(Tail(q), x)

RECURSIVE SortFrom(_, _, _)
SortFrom(q, i, acc) ==
    IF i > Len(q) THEN acc ELSE SortFrom(q, i + 1, InsertSorted(acc, q[i]))

SortByCreated(q) == SortFrom(q, 1, <<>>)

\* lines 213-214: discussions.extend(new_items); discussions.sort(...)
MergeSorted(discussions, items) == SortByCreated(discussions \o items)

\* lines 208-215: what db["discussions"] is when save_db is called
Merged(discussions, items) ==
    IF items = <<>> THEN discussions ELSE MergeSorted(discussions, items)

----------------------------------------------------------------------------
(* save_db *)

\* lines 118-119 as setdefault: counters already in the metadata are kept
WithMetadata_Stale(data, now) ==
    LET discussions == Get(data, K("discussions"), Arr(<<>>))
        counts == [i \in 1..Len(discussions.e) |-> PyLen(CommentsOf(discussions.e[i]))]
        d1 == SetDefault(data, K("metadata"), Obj(<<>>))
        m0 == Get(d1, K("metadata"), Null)
        m1 == Put(m0, K("source"), SourceOf(SUBREDDIT))
        m2 == Put(m1, K("scrape_date"), now_iso(now))
        m3 == SetDefault(m2, K("total_posts"), Num(PyLen(discussions), FALSE))
        m4 == SetDefault(m3, K("total_comments"), Num(SumSeq(counts), FALSE))
    IN Put(d1, K("metadata"), m4)

\* lines 113-119: the counters recomputed, the metadata refreshed
WithMetadata(data, now) ==
    LET discussions == Get(data, K("discussions"), Arr(<<>>))
        total_posts == PyLen(discussions)
        counts == [i \in 1..Len(discussions.e) |-> PyLen(CommentsOf(discussions.e[i]))]
        total_comments == SumSeq(counts)
        d1 == SetDefault(data, K("metadata"), Obj(<<>>))
        m0 == Get(d1, K("metadata"), Null)
        m1 == Put(m0, K("source"), SourceOf(SUBREDDIT))
        m2 == Put(m1, K("scrape_date"), now_iso(now))
        m3 == Put(m2, K("total_posts"), Num(total_posts, FALSE))
        m4 == Put(m3, K("total_comments"), Num(total_comments, FALSE))
    IN Put(d1, K("metadata"), m4)

\* whether lines 113-119 raise on data
SaveRaises(data) ==
    LET discussions == Get(data, K("discussions"), Arr(<<>>)) IN
    \/ ~IsArr(discussions)
    \/ \E i \in 1..Len(discussions.e) :
          ~IsObj(discussions.e[i]) \/ ~CanLen(CommentsOf(discussions.e[i]))
    \/ ~IsObj(Get(data, K("metadata"), Obj(<<>>)))

\* the part of the text a first, partial write leaves in the file
FirstChunk(txt) == SubSeq(txt, 1, Len(txt) \div 2)

----------------------------------------------------------------------------
(* Inputs: the database file found on disk and the stream sub.new() delivers *)

MaxExisting == 2
MaxStream == 2
MaxRuns == 2

Comment(body) == Obj(<< <<K("body"), S(body)>> >>)

\* stored posts: one with an id and a comment, one with an int timestamp and a
\* title that holds ",}", one with a null id, timestamp 0.0 and no comments key
PostA ==
    Obj(<< <<K("id"), S("a")>>, <<K("title"), S("x")>>, <<K("url"), S("u")>>,
           <<K("created_utc"), Num(1, TRUE)>>, <<K("comments"), Arr(<<Comment("k")>>)>> >>)
PostB ==
    Obj(<< <<K("id"), S("b")>>, <<K("title"), Str(<<",", "}">>)>>, <<K("url"), S("v")>>,
           <<K("created_utc"), Num(3, FALSE)>>, <<K("comments"), Arr(<<>>)>> >>)
PostU ==
    Obj(<< <<K("id"), Null>>, <<K("title"), S("x")>>, <<K("url"), S("u")>>,
           <<K("created_utc"), Num(0, TRUE)>> >>)
PostPool == {PostA, PostB, PostU}

Injective(q) == \A i, j \in DOMAIN q : q[i] = q[j] => i = j
PostSeqs == {q \in UNION {[1..k -> PostPool] : k \in 0..MaxExisting} : Injective(q)}

\* the three shapes of a stored document
Doc(shape, posts) ==
    CASE shape = "canonical" ->
            Obj(<< <<K("metadata"),
                     Obj(<< <<K("source"), SourceOf(SUBREDDIT)>>,
                            <<K("scrape_date"), now_iso(0)>>,
                            <<K("total_posts"), Num(7, FALSE)>>,
                            <<K("total_comments"), Num(7, FALSE)>> >>)>>,
                   <<K("discussions"), Arr(posts)>> >>)
      [] shape = "bare" -> Obj(<< <<K("discussions"), Arr(posts)>> >>)
      [] shape = "legacy" ->
            Obj(<< <<K("subreddit"), Str(SUBREDDIT)>>,
                   <<K("fetched_at_utc"), Num(5, FALSE)>>,
                   <<K("count"), Num(Len(posts), FALSE)>>,
                   <<K("items"), Arr(posts)>> >>)
Shapes == {"canonical", "bare", "legacy"}

\* position i of text t lies inside a string literal
InString(t, i) == Cardinality({j \in 1..(i - 1) : t[j] = "QT"}) % 2 = 1

\* the closing braces of a document's text
ClosingBraces(t) == {i \in 1..Len(t) : t[i] = "}" /\ ~InString(t, i)}
LastBrace(t) == MaxOf(ClosingBraces(t))

InsertBefore(t, i, x) == SubSeq(t, 1, i - 1) \o x \o SubSeq(t, i, Len(t))

\* a comma put after the last member of the object that closes at b
TrailingComma(t, b) ==
    LET j == CHOOSE j \in 1..(b - 1) : ~IsWs(t[j]) /\ \A k \in (j + 1)..(b - 1) : IsWs(t[k])
    IN InsertBefore(t, j + 1, <<",">>)

\* the damage done to a well-formed text t; at is the brace a comma goes before
Damage(kind, t, at) ==
    CASE kind = "none" -> t
      [] kind = "comma" -> TrailingComma(t, at)
      [] kind = "cut" -> SubSeq(t, 1, Len(t) - 1)
      [] kind = "bom" -> <<"BOM">> \o t
      [] kind = "wrap" -> <<"x", "NL">> \o t \o <<"NL", "y">>
      [] kind = "linecomment" -> <<"//", "SP", "x", "NL">> \o t
      [] kind = "blockcomment" -> <<"/*", "x", "NL", "y", "*/">> \o t
      [] kind = "conflict" ->
            <<"<<<<<<<", "SP", "HEAD", "NL", "{", "}", "NL", "=======", "NL",
              ">>>>>>>", "NL">> \o t
      [] kind = "badbyte" -> SubSeq(t, 1, Len(t) - 1) \o <<"BAD">>

\* texts that never were a document
Garbage ==
    { <<"x">>, <<"x", "{", "}", "y">>, <<"{", "x", "}">>, <<"BAD", "{", "x">>,
      <<"[", "]">>, <<"2">> }

InputOf(kind, doc, at, file) == [kind |-> kind, doc |-> doc, at |-> at, file |-> file]

DocInput(kind, shape, posts, at) ==
    LET doc == Doc(shape, posts)
        t == json_dumps(doc)
        b == IF at = 0 THEN LastBrace(t) ELSE at
    IN InputOf(kind, doc, b, FileOf(Damage(kind, t, b)))

\* the inputs of a whole run: a missing file, a text that is no dict, the
\* documents of every shape intact, and the canonical documents with a trailing
\* comma before the last brace or cut short
MainKinds == {"comma", "cut"}
MainInputs ==
    {InputOf("absent", Null, 0, NoFile), InputOf("garbage", Null, 0, FileOf(<<"[", "]">>))}
    \cup {DocInput("none", sh, q, 0) : sh \in Shapes, q \in PostSeqs}
    \cup {DocInput(k, "canonical", q, 0) : k \in MainKinds, q \in PostSeqs}

\* the inputs of the loader alone: every kind of damage, a comma before every brace
LoadKinds == {"none", "cut", "bom", "wrap", "linecomment", "blockcomment", "conflict", "badbyte"}
LoadInputs ==
    {InputOf("absent", Null, 0, NoFile)}
    \cup {InputOf("garbage", Null, 0, FileOf(g)) : g \in Garbage}
    \cup {DocInput(k, sh, q, 0) : k \in LoadKinds, sh \in Shapes, q \in PostSeqs}
    \cup UNION {{DocInput("comma", sh, q, b) : b \in ClosingBraces(json_dumps(Doc(sh, q)))} :
                sh \in Shapes, q \in PostSeqs}

\* what sub.new() can deliver: two posts of the same created_utc (the comment
\* listing of one raises at its second comment), and a post without id or
\* timestamp whose replace_more raises
Submission(id, url, created, comments, fail) ==
    [id |-> id, title |-> S("x"), url |-> url, created_utc |-> created,
     comments |-> comments, fail |-> fail]
SubC == Submission(S("c"), S("w"), Num(3, TRUE), <<S("k"), S("m")>>, 2)
SubD == Submission(S("d"), S("w"), Num(3, TRUE), <<S("k")>>, -1)
SubU == Submission(Null, S("u"), Null, <<>>, 0)
SubPool == {SubC, SubD, SubU}
Streams == UNION {[1..k -> SubPool] : k \in 0..MaxStream}

----------------------------------------------------------------------------
(* The state machine: runs of main(), one after the other *)

VARIABLES
    fs,         \* path -> file
    pc,         \* where the current run of main() stands
    run,        \* the number of the current run
    clock,      \* what now_iso() reads next
    db,         \* main's db
    seen,       \* main's seen
    cutoff,     \* main's cutoff
    new_items,  \* main's new_items
    fetched,    \* main's fetched
    text,       \* save_db: the text json.dumps returned
    stream,     \* what sub.new() delivers, newest first
    taken,      \* the stream positions serialized in this run
    orig,       \* how the file found by the first run came about
    before,     \* the database file as the current run found it
    loaded,     \* what load_db returned to the current run
    hist        \* of each finished run: a summary of what it loaded and saved

vars == <<fs, pc, run, clock, db, seen, cutoff, new_items, fetched, text, stream,
          taken, orig, before, loaded, hist>>

locals == <<db, seen, cutoff, new_items, fetched, text, taken, loaded>>

InitWith(inp, strm) ==
    /\ fs = [p \in Paths |-> IF p = OUTPUT_PATH THEN inp.file ELSE NoFile]
    /\ pc = "start"
    /\ run = 1
    /\ clock = 1
    /\ db = Null
    /\ seen = {}
    /\ cutoff = 0
    /\ new_items = <<>>
    /\ fetched = 0
    /\ text = <<>>
    /\ stream = strm
    /\ taken = <<>>
    /\ orig = [kind |-> inp.kind, doc |-> inp.doc, at |-> inp.at]
    /\ before = inp.file
    /\ loaded = Null
    /\ hist = <<>>

Init == \E inp \in MainInputs, strm \in Streams : InitWith(inp, strm)

\* what main keeps of load_db's result r; an exception ends the run
Loaded(r) ==
    /\ fs' = r.fs
    /\ db' = r.db
    /\ loaded' = r.db
    /\ pc' = IF r.st = "raise" THEN "crashed" ELSE "loaded"

\* line 173: db = load_db(OUTPUT_PATH)
Load ==
    /\ pc = "start"
    /\ Loaded(load_db(fs, OUTPUT_PATH, clock))
    /\ before' = fs[OUTPUT_PATH]
    /\ clock' = clock + 1
    /\ UNCHANGED <<run, seen, cutoff, new_items, fetched, text, stream, taken, orig, hist>>

\* whether lines 174-184 raise: a discussions that is no list of dicts
ScanRaises(data) ==
    LET discussions == Get(data, K("discussions"), Arr(<<>>)) IN
    ~IsArr(discussions) \/ \E i \in 1..Len(discussions.e) : ~IsObj(discussions.e[i])

\* lines 174-192: seen and cutoff from the stored posts
Scan ==
    /\ pc = "loaded"
    /\ IF ScanRaises(db)
       THEN pc' = "crashed" /\ UNCHANGED <<seen, cutoff>>
       ELSE LET discussions == Get(db, K("discussions"), Arr(<<>>)).e IN
            /\ seen' = {post_key_from_existing(discussions[i]) : i \in 1..Len(discussions)}
            /\ cutoff' = CutoffFrom(discussions, 1, 0)
            /\ pc' = "fetch"
    /\ new_items' = <<>>
    /\ fetched' = 0
    /\ taken' = <<>>
    /\ UNCHANGED <<fs, run, clock, db, text, stream, orig, before, loaded, hist>>

\* lines 194-204: one submission of the stream
FetchItem ==
    /\ pc = "fetch"
    /\ fetched < Len(stream)
    /\ fetched < MAX_NEW_TO_PULL
    /\ LET st == LoopStep([seen |-> seen, new_items |-> new_items, taken |-> taken,
                           stop |-> FALSE],
                          cutoff, stream[fetched + 1], fetched + 1)
       IN /\ seen' = st.seen
          /\ new_items' = st.new_items
          /\ taken' = st.taken
          /\ pc' = IF st.stop THEN "merge" ELSE "fetch"
    /\ fetched' = fetched + 1
    /\ UNCHANGED <<fs, run, clock, db, cutoff, text, stream, orig, before, loaded, hist>>

\* the stream is exhausted, or the limit reached
FetchEnd ==
    /\ pc = "fetch"
    /\ fetched = Len(stream) \/ fetched = MAX_NEW_TO_PULL
    /\ pc' = "merge"
    /\ UNCHANGED <<fs, run, clock, locals, stream, orig, before, hist>>

\* whether the sort of line 214 raises
SortRaises(q) == \E i \in 1..Len(q) : ~CanFloat(CreatedOrZero(q[i]))

\* lines 208-215
Merge ==
    /\ pc = "merge"
    /\ LET discussions == Get(db, K("discussions"), Arr(<<>>)).e IN
       IF new_items # <<>> /\ SortRaises(discussions \o new_items)
       THEN pc' = "crashed" /\ UNCHANGED db
       ELSE /\ db' = Put(db, K("discussions"), Arr(Merged(discussions, new_items)))
            /\ pc' = "save"
    /\ UNCHANGED <<fs, run, clock, seen, cutoff, new_items, fetched, text, stream,
                   taken, orig, before, loaded, hist>>

\* save_db lines 113-121: the metadata, and the text to write
SaveMeta ==
    /\ pc = "save"
    /\ IF SaveRaises(db)
       THEN pc' = "crashed" /\ UNCHANGED <<db, text>>
       ELSE /\ db' = WithMetadata(db, clock)
            /\ text' = json_dumps(db')
            /\ pc' = "open"
    /\ clock' = clock + 1
    /\ UNCHANGED <<fs, run, seen, cutoff, new_items, fetched, stream, taken, orig,
                   before, loaded, hist>>

\* tmp.write_text: the file is opened for writing, which empties it
SaveOpen ==
    /\ pc = "open"
    /\ fs' = [fs EXCEPT ![TmpPath(OUTPUT_PATH)] = FileOf(<<>>)]
    /\ pc' = "write"
    /\ UNCHANGED <<run, clock, locals, stream, orig, before, hist>>

\* tmp.write_text: a first part of the text reaches the file
SaveWrite ==
    /\ pc = "write"
    /\ fs' = [fs EXCEPT ![TmpPath(OUTPUT_PATH)] = FileOf(FirstChunk(write_text(text)))]
    /\ pc' = "flush"
    /\ UNCHANGED <<run, clock, locals, stream, orig, before, hist>>

\* tmp.write_text: the rest of the text reaches the file
SaveFlush ==
    /\ pc = "flush"
    /\ fs' = [fs EXCEPT ![TmpPath(OUTPUT_PATH)] = FileOf(write_text(text))]
    /\ pc' = "rename"
    /\ UNCHANGED <<run, clock, locals, stream, orig, before, hist>>

\* tmp.replace(path)
SaveRename ==
    /\ pc = "rename"
    /\ LET tmp == TmpPath(OUTPUT_PATH) IN
       fs' = IF tmp = OUTPUT_PATH THEN fs
             ELSE [fs EXCEPT ![OUTPUT_PATH] = fs[tmp], ![tmp] = NoFile]
    /\ pc' = "done"
    /\ UNCHANGED <<run, clock, locals, stream, orig, before, hist>>

\* the process is stopped in the middle of save_db
SaveStages == {"open", "write", "flush", "rename"}
Interrupt ==
    /\ pc \in SaveStages
    /\ pc' = "stopped"
    /\ UNCHANGED <<fs, run, clock, locals, stream, orig, before, hist>>

\* what is kept of a finished run: whether the posts it loaded had pairwise
\* distinct keys, how many posts it saved, how many of them it added
Summary(was, saved, items) ==
    LET q == Get(was, K("discussions"), Arr(<<>>)).e IN
    [distinct |-> \A i, j \in 1..Len(q) :
                     post_key_from_existing(q[i]) = post_key_from_existing(q[j]) => i = j,
     saved |-> Len(Get(saved, K("discussions"), Arr(<<>>)).e),
     added |-> Len(items)]

\* the next scheduled run of main(), against the same stream
NextRun ==
    /\ pc = "done"
    /\ run < MaxRuns
    /\ run' = run + 1
    /\ pc' = "start"
    /\ hist' = Append(hist, Summary(loaded, db, new_items))
    /\ db' = Null
    /\ seen' = {}
    /\ cutoff' = 0
    /\ new_items' = <<>>
    /\ fetched' = 0
    /\ text' = <<>>
    /\ taken' = <<>>
    /\ loaded' = Null
    /\ before' = fs[OUTPUT_PATH]
    /\ UNCHANGED <<fs, clock, stream, orig>>

Next ==
    \/ Load \/ Scan \/ FetchItem \/ FetchEnd \/ Merge
    \/ SaveMeta \/ SaveOpen \/ SaveWrite \/ SaveFlush \/ SaveRename
    \/ Interrupt \/ NextRun

Spec == Init /\ [][Next]_vars

\* the loader alone, on every kind of damaged file
InitLoad == \E inp \in LoadInputs : InitWith(inp, <<>>)
NextLoad == Load
SpecLoad == InitLoad /\ [][NextLoad]_vars

----------------------------------------------------------------------------
(* What the claims speak of *)

Discussions(d) == Get(d, K("discussions"), Arr(<<>>)).e

\* the document a reader finds at the target path, and its posts
SavedDoc == json_loads(read_text(fs[OUTPUT_PATH].data)).v
SavedDiscussions == Discussions(SavedDoc)

KeysOf(q) == [i \in 1..Len(q) |-> post_key_from_existing(q[i])]
DistinctKeys(q) == Injective(KeysOf(q))

SortedAscending(q) == \A i, j \in 1..Len(q) : i < j => SortKey(q[i]) <= SortKey(q[j])

\* the posts the first run loaded had pairwise distinct identity keys
FirstDistinct == IF run = 1 THEN DistinctKeys(Discussions(loaded)) ELSE hist[1].distinct

\* T: the largest created_utc among the posts the current run loaded
StoredMax == MaxOf({0} \cup {SortKey(Discussions(loaded)[i]) : i \in 1..Len(Discussions(loaded))})

BackupFile == fs[BackupPath(OUTPUT_PATH)]
TmpFile == fs[TmpPath(OUTPUT_PATH)]

IsEmptyDb(d) ==
    /\ IsObj(d)
    /\ Discussions(d) = <<>>
    /\ Get(Get(d, K("metadata"), Obj(<<>>)), K("total_posts"), Null) = Num(0, FALSE)
    /\ Get(Get(d, K("metadata"), Obj(<<>>)), K("total_comments"), Null) = Num(0, FALSE)

\* the posts of a stored document of either schema
PostsOfDoc(d) ==
    IF ~IsObj(d) THEN <<>>
    ELSE IF Has(d, K("discussions")) THEN Get(d, K("discussions"), Arr(<<>>)).e
    ELSE Get(d, K("items"), Arr(<<>>)).e

\* the posts in the database file before the current run: those of the document
\* the file was made from (intact, or with one trailing comma), later those of
\* the file the previous run saved
PostsBefore ==
    IF run = 1
    THEN IF orig.kind \in {"none", "comma"} THEN PostsOfDoc(orig.doc) ELSE <<>>
    ELSE PostsOfDoc(json_loads(read_text(before.data)).v)

\* the stream positions i the loop reached without breaking
Reached(i) ==
    /\ i <= fetched
    /\ \A k \in 1..i : ~(cutoff # 0 /\ Created(stream[k]).n <= cutoff)

\* the orders in which the stream can deliver its submissions
Reorderings ==
    {[i \in 1..Len(stream) |-> stream[p[i]]] :
        p \in {f \in [1..Len(stream) -> 1..Len(stream)] : Injective(f)}}

\* every submission is new: above the cutoff, its key unknown and its own
AllNew ==
    /\ \A i \in 1..Len(stream) :
          /\ ~(cutoff # 0 /\ Created(stream[i]).n <= cutoff)
          /\ \A j \in 1..Len(Discussions(loaded)) :
                SubmissionKey(stream[i]) # post_key_from_existing(Discussions(loaded)[j])
    /\ \A i, j \in 1..Len(stream) :
          SubmissionKey(stream[i]) = SubmissionKey(stream[j]) => i = j

\* what a run that loaded `loaded` saves as discussions when the stream is strm
SavedFor(strm) ==
    Merged(Discussions(loaded),
           RunLoop([seen |-> {post_key_from_existing(Discussions(loaded)[i]) :
                                 i \in 1..Len(Discussions(loaded))},
                    new_items |-> <<>>, taken |-> <<>>, stop |-> FALSE],
                   StoredMax, strm, 1).new_items)

\* no relaxed candidate of raw parses, nor raw itself
Unrepairable(raw) ==
    /\ ~json_loads(raw).ok
    /\ \A i \in 1..5 : ~json_loads(Candidates(raw)[i]).ok

----------------------------------------------------------------------------
(* The claims *)

\* C1: when the posts the first run loaded have pairwise distinct identity keys,
\* every finished run leaves a file with no two posts of the same identity key,
\* and a run after the first, against the same stream, adds no record: the file
\* holds as many posts as the previous run saved.
C1_SecondRunAddsNothing ==
    (pc = "done" /\ FirstDistinct) =>
        /\ DistinctKeys(SavedDiscussions)
        /\ run >= 2 =>
              /\ Len(SavedDiscussions) = hist[run - 1].saved
              /\ new_items = <<>>

\* a second run that finished after a first run that added posts
C1_Witness ==
    /\ pc = "done" /\ run = 2
    /\ hist[1].added > 0
    /\ hist[1].saved > hist[1].added
    /\ fetched > 0

\* C2 as stated: for every T >= 0, T = 0 included, every post a run appends has
\* a created_utc strictly greater than T, the largest created_utc it loaded.
C2_AppendedAboveAnyCutoff ==
    (loaded # Null /\ pc # "crashed") =>
        \A i \in 1..Len(new_items) : SortKey(new_items[i]) > StoredMax

\* C2 amended: when T > 0, every post a run appends has a created_utc strictly
\* greater than T.
C2_AppendedAbovePositiveCutoff ==
    (loaded # Null /\ pc # "crashed" /\ StoredMax > 0) =>
        \A i \in 1..Len(new_items) : SortKey(new_items[i]) > StoredMax

\* a finished run with T > 0 that appended a post and met a post at or below T
C2_Witness ==
    /\ pc = "done" /\ loaded # Null /\ StoredMax > 0
    /\ new_items # <<>>
    /\ \E i \in 1..Len(stream) : Created(stream[i]).n <= StoredMax

\* C3: after every save, whatever was loaded and whether or not new items were
\* found, the saved discussions are sorted ascending by created_utc.
C3_SortedOnSave == pc = "done" => SortedAscending(SavedDiscussions)

\* C4: after save_db, on both paths, the written document has total_posts equal
\* to the number of discussions and total_comments equal to the sum of their
\* comment counts, whatever counters were loaded.
C4_MetadataAccurate ==
    pc = "done" =>
        LET meta == Get(SavedDoc, K("metadata"), Obj(<<>>))
            q == SavedDiscussions
        IN /\ Get(meta, K("total_posts"), Null) = Num(Len(q), FALSE)
           /\ Get(meta, K("total_comments"), Null) =
                 Num(SumSeq([i \in 1..Len(q) |-> Len(CommentsOf(q[i]).e)]), FALSE)

\* a second run that found nothing new, after a first run that loaded stale
\* counters and added posts, with comments in the file
C4_Witness ==
    /\ pc = "done" /\ run = 2 /\ new_items = <<>>
    /\ hist[1].added > 0
    /\ orig.kind = "none"
    /\ Get(Get(orig.doc, K("metadata"), Obj(<<>>)), K("total_comments"), Null)
          = Num(7, FALSE)
    /\ Get(Get(SavedDoc, K("metadata"), Obj(<<>>)), K("total_comments"), Null)
          = Num(2, FALSE)

\* C5: every post in the database file before a run that reaches its save is in
\* the file after the run, with the same fields and comments.
C5_StoredPostsKept ==
    pc = "done" =>
        \A i \in 1..Len(PostsBefore) :
            \E j \in 1..Len(SavedDiscussions) : SavedDiscussions[j] = PostsBefore[i]

\* C6: for every existing file that json.loads rejects and no relaxed candidate
\* repairs (the relaxed-parse failure the claim is named for), load_db returns
\* an empty database and leaves a backup file whose content is the original
\* content of the file.
C6_InvalidBackedUp ==
    (pc # "start" /\ run = 1 /\ before.exists /\ Unrepairable(read_text(before.data))) =>
        /\ pc = "loaded"
        /\ IsEmptyDb(db)
        /\ BackupFile = before

\* C7: in every state, a stopped save included, the target path holds the
\* complete document the run found there or the complete new document.
C7_AtomicSave ==
    \/ fs[OUTPUT_PATH] = before
    \/ /\ pc = "done"
       /\ text # <<>>
       /\ fs[OUTPUT_PATH] = FileOf(write_text(text))

\* a save stopped while the temporary file held part of the new text
C7_Witness ==
    /\ pc = "stopped"
    /\ before.exists
    /\ TmpFile.exists /\ TmpFile.data # <<>> /\ TmpFile.data # write_text(text)
    /\ fs[OUTPUT_PATH] = before

\* C8: a document with a trailing comma before one of its closing braces loads
\* without a backup, as the same content as the document without the comma.
C8_TrailingCommaRecovered ==
    (pc # "start" /\ run = 1 /\ orig.kind = "comma") =>
        /\ pc = "loaded"
        /\ ~BackupFile.exists
        /\ db = load_db([q \in Paths |->
                            IF q = OUTPUT_PATH THEN FileOf(json_dumps(orig.doc)) ELSE NoFile],
                        OUTPUT_PATH, clock - 1).db

\* C9: a submission the loop reached, of unknown key, whose comment fetch raised
\* is among the new items with an empty comment list; no run crashes after it
\* fetched; and once the run is done the post is in the saved file.
C9_CommentFailureContained ==
    LET known == {post_key_from_existing(Discussions(loaded)[k]) :
                     k \in 1..Len(Discussions(loaded))}
        failing == {i \in 1..Len(stream) :
                       /\ Reached(i)
                       /\ stream[i].fail # -1
                       /\ SubmissionKey(stream[i]) \notin known}
        kept(q, i) == \E j \in 1..Len(q) :
                         /\ post_key_from_existing(q[j]) = SubmissionKey(stream[i])
                         /\ CommentsOf(q[j]) = Arr(<<>>)
    IN /\ pc = "crashed" => fetched = 0
       /\ (pc \in {"fetch", "merge", "save", "done"} \cup SaveStages) =>
             \A i \in failing : kept(new_items, i)
       /\ pc = "done" =>
             LET saved == SavedDiscussions IN \A i \in failing : kept(saved, i)

\* a finished run that kept a post whose comment listing raised after a comment
\* was gathered, and went on to take the next submission
C9_Witness ==
    /\ pc = "done"
    /\ Len(taken) = 2
    /\ stream[taken[1]].fail > 1
    /\ Len(SavedDiscussions) >= 2

\* C10: when every submission of the stream is new, the discussions a run saves
\* are the same for every order in which the stream delivers them.
C10_OrderIndependent ==
    (pc = "done" /\ AllNew) =>
        \A strm \in Reorderings : SavedFor(strm) = SavedDiscussions

====
